---- MODULE Spec2Model ----
(***************************************************************************)
(* The tiered account poller of services/twitterMonitor.js (Priority/Base  *)
(* tiers, burst-on-activity, credit guard) as a timed state machine.       *)
(* Time is in milliseconds, as in the source; the clock `now` jumps from   *)
(* one deadline (a timer, a sleep, an HTTP timeout) to the next.           *)
(* Every async function is a set of tasks, each parked at one `await`.     *)
(***************************************************************************)
EXTENDS Integers, Sequences, FiniteSets, TLC

Max(a, b) == IF a >= b THEN a ELSE b

Min(S) == CHOOSE x \in S : \A y \in S : x <= y

Range(f) == {f[i] : i \in DOMAIN f}

(* ---------------------------- bounds ---------------------------------- *)

\* Provider calls started over a run.
MaxFetches == 3

\* Largest clock value the model advances to (ms).
MaxTime == 600000

\* Interval handles handed out by setInterval over a run.
MaxTimers == 5

\* start() calls over a run.
MaxStarts == 2

\* Longest silence of one backend the model follows (ms).
MaxWait == 60000

\* Most votes handed to an aggregator at once.
MaxVotes == 3

\* Most items in one account list of the environment.
MaxEnvItems == 3

\* Most accounts handed to start() of the TwitterMonitor class.
MaxAccounts == 3

\* start() calls and fetchLatestTweets cycles of the single-timer class.
MaxMonStarts == 2

MaxCycles == 3

\* The timeout callModel gives a request (ms); the model's clock of a silent
\* backend advances by it.
TIMEOUT_MS == 30000

\* Capacity of the event buffer.  The source sets 300 (twitterMonitor.js:37);
\* the model keeps the truncation rule and uses a capacity that overflows
\* within the posts the modelled provider can return.
MAX_TWEETS == 2

\* The same three limits for a run that lasts past a burst window and a
\* suspension: provider calls, clock (ms), start() calls.
MaxLongFetches == 2

MaxLongTime == 1860000

MaxLongStarts == 1

\* Longest list handed to pushTweets in the check of the buffer on its own.
MaxBatch == 3

(* ------------------ configuration (twitterMonitor.js:9-21) ------------ *)

\* Every account name the modelled environments mention.
Handles == {"p1", "p2", "b1"}

\* process.env.PRIORITY_ACCOUNTS and TWITTER_ACCOUNTS after split(',') and
\* trim: lists of names, "" for an empty item.
EnvConfigs ==
    { [pri |-> <<"p1", "p2">>, base |-> <<"p2", "">>],
      [pri |-> <<"p1">>,       base |-> <<"p1">>],
      [pri |-> <<"p1">>,       base |-> <<"b1">>] }

Take(list, n) == SubSeq(list, 1, IF Len(list) < n THEN Len(list) ELSE Max(n, 0))

\* .filter(Boolean).slice(0, 3)
ParsePriority(items) == Take(SelectSeq(items, LAMBDA h : h # ""), 3)

\* .filter(Boolean).filter(h => !PRIORITY.includes(h)).slice(0, 5 - PRIORITY.length)
ParseBase(items, pri) ==
    Take(SelectSeq(items, LAMBDA h : h # "" /\ \A i \in DOMAIN pri : pri[i] # h),
         5 - Len(pri))

ENV_PRIORITY_INTERVAL_MS == 60000

ENV_BASE_INTERVAL_MS == 600000

ENV_PER_REQUEST_GAP_MS == 15000

ENV_BURST_WINDOW_MS == 600000

ENV_SUSPEND_COOLDOWN_MS == 1800000

PRIORITY_INTERVAL == Max(60000, ENV_PRIORITY_INTERVAL_MS)

BASE_INTERVAL == Max(600000, ENV_BASE_INTERVAL_MS)

GAP_MS == Max(10000, ENV_PER_REQUEST_GAP_MS)

BURST_WINDOW_MS == Max(300000, ENV_BURST_WINDOW_MS)

SUSPEND_COOLDOWN_MS == Max(15 * 60000, ENV_SUSPEND_COOLDOWN_MS)

\* setInterval period of a burst timer
BURST_INTERVAL == Max(60000, PRIORITY_INTERVAL)

TierInterval(kind) == IF kind = "P" THEN PRIORITY_INTERVAL ELSE BASE_INTERVAL

(* --------------------------- post ids --------------------------------- *)

\* An id is a JavaScript string of decimal digits, kept as its sequence of
\* digits; <<>> is the empty string, which like undefined is falsy.
NoId == <<>>

\* a < b on JavaScript strings: code unit by code unit, a proper prefix first.
StrLT(a, b) ==
    \E i \in 1..Len(b) :
        /\ \A j \in 1..(i - 1) : j <= Len(a) /\ a[j] = b[j]
        /\ \/ i = Len(a) + 1
           \/ i <= Len(a) /\ a[i] < b[i]

StrGT(a, b) == StrLT(b, a)

StrMax(S) == CHOOSE x \in S : \A y \in S : y = x \/ StrLT(y, x)

\* Sequences over S without repetition, of every length: the batches a
\* provider can return from the posts in S, in any order.
Perms(S) ==
    UNION {{f \in [1..n -> S] : \A i, j \in 1..n : f[i] = f[j] => i = j} :
           n \in 0..Cardinality(S)}

Ids(list) == {list[i].id : i \in DOMAIN list}

(* ------------------------ the provider's posts ------------------------ *)

Tweet(id, created, author) == [id |-> id, created_at |-> created, author |-> author]

\* What the provider can hold for an account (raw records: id, createdAt).
RawOf(h) ==
    CASE h = "p1" -> {Tweet(<<3>>, 1, h), Tweet(<<5>>, 2, h)}
      [] h = "p2" -> {Tweet(<<4>>, 3, h)}
      [] OTHER    -> {Tweet(<<6>>, 4, h)}

AllIds == UNION {{t.id : t \in RawOf(h)} : h \in Handles}

\* The accounts the TwitterMonitor class is started with, and what the
\* provider can hold for each.
ClassAccounts == {"u1", "u2"}

ClassOrder == <<"u1", "u2">>

ClassRawOf(u) ==
    IF u = "u1" THEN {Tweet(<<3>>, 1, u), Tweet(<<5>>, 2, u)}
    ELSE {Tweet(<<4>>, 3, u)}

\* The lists the dedup check feeds to fetchLastTweets: any order, a record
\* without an id among them.
DedupRaw(h) ==
    {Tweet(<<3>>, 1, h), Tweet(<<5>>, 2, h), Tweet(<<1, 0>>, 3, h), Tweet(NoId, 4, h)}

DedupIds == {<<3>>, <<5>>, <<1, 0>>}

(* ------------------------------ state --------------------------------- *)

VARIABLES
    PRIORITY,            \* the priority tier's accounts
    BASE,                \* the base tier's accounts
    limits,              \* how far a run of the model goes: calls, time, starts
    now,                 \* Date.now()
    lastSeenByHandle,    \* handle -> last tweet id, NoId when unset
    tweetsBuffer,        \* newest-first list of posts
    priorityTimer,       \* interval handle, 0 for null
    baseTimer,           \* interval handle, 0 for null
    burstTimers,         \* handle -> interval handle, 0 when the Map has no entry
    burstUntil,          \* handle -> epoch ms, 0 when unset
    suspendedUntil,      \* epoch ms when polling may resume
    lastPollAtPriority,  \* -1 for null
    lastPollAtBase,      \* -1 for null
    isMonitoring,
    timers,              \* the runtime's active intervals
    nextTimer,           \* next interval handle setInterval returns
    tasks,               \* async invocations, each parked at an await
    nCalls,              \* http.get calls started so far
    emitCount,           \* id -> times unshifted into tweetsBuffer (capped at 2)
    lastStatus,          \* HTTP status of the call that completed last, 0 before any
    nStarts,             \* start() calls so far
    d_handle,            \* dedup check: the account under test
    d_batch,             \* dedup check: the provider's list under test
    d_results,           \* dedup check: one record per fetchLastTweets call made
    b_batch,             \* buffer check: the list pushTweets was given last
    c_lastSeenIdByUser,  \* TwitterMonitor class: account -> since_id
    c_tweets,            \* TwitterMonitor class: this.tweets
    c_isFetching,        \* TwitterMonitor class: re-entrancy guard
    c_i,                 \* TwitterMonitor class: account the running cycle awaits, 0 if none
    c_newTweets,         \* TwitterMonitor class: newTweets of the running cycle
    e_models,            \* sentiment ensemble: the backends one analysis asks, in order
    e_rule,              \* sentiment ensemble: ENSEMBLE_VOTING
    e_pc,                \* sentiment ensemble: where analyzeSentiment stands
    e_i,                 \* sentiment ensemble: index of the backend being awaited
    e_results,           \* sentiment ensemble: results pushed so far
    e_replies,           \* sentiment ensemble: what each backend asked so far did
    e_wait,              \* sentiment ensemble: ms the awaited backend has been silent
    e_out,               \* sentiment ensemble: what analyzeSentiment returned
    e_votes,             \* aggregation check: the votes handed to the aggregators
    e_agg,               \* aggregation check: what each aggregator returned
    imp,                 \* importance check: the post classified and the levels returned
    reg,                 \* registry check: the environment's lists and whether the module has loaded
    res,                 \* account check: the list start() is given and the targets it built
    mon,                 \* single-timer TwitterMonitor class: its fields, intervals and running cycles
    app,                 \* index.js: mode, simulation and live timers
    soc                  \* SocialMediaMonitor: scans and the Redis keys

Tier(kind) == IF kind = "P" THEN PRIORITY ELSE BASE

TierOf(h) == IF h \in Range(PRIORITY) THEN "P" ELSE "B"

vars == <<PRIORITY, BASE, limits, now, lastSeenByHandle, tweetsBuffer, priorityTimer, baseTimer,
          burstTimers, burstUntil, suspendedUntil, lastPollAtPriority,
          lastPollAtBase, isMonitoring, timers, nextTimer, tasks, nCalls,
          emitCount, lastStatus, nStarts, d_handle, d_batch, d_results, b_batch,
          c_lastSeenIdByUser, c_tweets, c_isFetching, c_i, c_newTweets,
          e_models, e_rule, e_pc, e_i, e_results, e_replies, e_wait, e_out,
          e_votes, e_agg, imp, reg, res, mon, app, soc>>

dvars == <<d_handle, d_batch, d_results, b_batch>>

cvars == <<c_lastSeenIdByUser, c_tweets, c_isFetching, c_i, c_newTweets>>

\* The components modelled on their own, one variable each.
xvars == <<imp, reg, res, mon, app, soc>>

evars == <<e_models, e_rule, e_pc, e_i, e_results, e_replies, e_wait, e_out,
          e_votes, e_agg>>

\* The variables of the tiered monitor that its handlers write.
mvars == <<lastSeenByHandle, tweetsBuffer, priorityTimer, baseTimer,
           burstTimers, burstUntil, suspendedUntil, lastPollAtPriority,
           lastPollAtBase, isMonitoring, timers, nextTimer, tasks, nCalls,
           emitCount, lastStatus>>

\* The mutable state as one record, so that a handler is a function from
\* state to state and handlers compose the way the calls in the source do.
\* ok turns FALSE when a step would pass a bound of the model.
Cur ==
    [lastSeenByHandle |-> lastSeenByHandle, tweetsBuffer |-> tweetsBuffer,
     priorityTimer |-> priorityTimer, baseTimer |-> baseTimer,
     burstTimers |-> burstTimers, burstUntil |-> burstUntil,
     suspendedUntil |-> suspendedUntil,
     lastPollAtPriority |-> lastPollAtPriority, lastPollAtBase |-> lastPollAtBase,
     isMonitoring |-> isMonitoring, timers |-> timers, nextTimer |-> nextTimer,
     tasks |-> tasks, nCalls |-> nCalls, emitCount |-> emitCount,
     lastStatus |-> lastStatus, ok |-> TRUE]

Commit(s) ==
    /\ s.ok
    /\ lastSeenByHandle' = s.lastSeenByHandle
    /\ tweetsBuffer' = s.tweetsBuffer
    /\ priorityTimer' = s.priorityTimer
    /\ baseTimer' = s.baseTimer
    /\ burstTimers' = s.burstTimers
    /\ burstUntil' = s.burstUntil
    /\ suspendedUntil' = s.suspendedUntil
    /\ lastPollAtPriority' = s.lastPollAtPriority
    /\ lastPollAtBase' = s.lastPollAtBase
    /\ isMonitoring' = s.isMonitoring
    /\ timers' = s.timers
    /\ nextTimer' = s.nextTimer
    /\ tasks' = s.tasks
    /\ nCalls' = s.nCalls
    /\ emitCount' = s.emitCount
    /\ lastStatus' = s.lastStatus

(* ----------------------------- helpers -------------------------------- *)

\* mapTweets: records without an id are dropped.
mapTweets(raw) == SelectSeq(raw, LAMBDA t : t.id # NoId)

\* Array.prototype.sort with (a, b) => b.created_at - a.created_at: stable,
\* newest first.
RECURSIVE InsertDesc(_, _)
InsertDesc(sorted, t) ==
    IF sorted = <<>> THEN <<t>>
    ELSE IF Head(sorted).created_at >= t.created_at
         THEN <<Head(sorted)>> \o InsertDesc(Tail(sorted), t)
         ELSE <<t>> \o sorted

RECURSIVE SortDesc(_)
SortDesc(list) ==
    IF list = <<>> THEN <<>>
    ELSE InsertDesc(SortDesc(SubSeq(list, 1, Len(list) - 1)), list[Len(list)])

Bump(ec, id) == [ec EXCEPT ![id] = IF @ < 2 THEN @ + 1 ELSE @]

\* The for loop of pushTweets without the test against the buffer.
RECURSIVE UnshiftAllNoCheck(_, _)
UnshiftAllNoCheck(s, list) ==
    IF list = <<>> THEN s
    ELSE LET t == Head(list)
         IN  UnshiftAllNoCheck([s EXCEPT !.tweetsBuffer = <<t>> \o @,
                                         !.emitCount = Bump(@, t.id)],
                               Tail(list))

\* The for loop of pushTweets over the sorted list: unshift what the buffer
\* does not hold yet.
RECURSIVE UnshiftAll(_, _)
UnshiftAll(s, list) ==
    IF list = <<>> THEN s
    ELSE LET t == Head(list)
             s1 == IF \E k \in DOMAIN s.tweetsBuffer : s.tweetsBuffer[k].id = t.id
                   THEN s
                   ELSE [s EXCEPT !.tweetsBuffer = <<t>> \o @,
                                  !.emitCount = Bump(@, t.id)]
         IN  UnshiftAll(s1, Tail(list))

\* A truncation that drops the front of the buffer.
TruncateFront(buf) ==
    IF Len(buf) > MAX_TWEETS THEN SubSeq(buf, Len(buf) - MAX_TWEETS + 1, Len(buf)) ELSE buf

Truncate(buf) == IF Len(buf) > MAX_TWEETS THEN SubSeq(buf, 1, MAX_TWEETS) ELSE buf

pushTweets(s, list) ==
    IF list = <<>> THEN s
    ELSE LET s1 == UnshiftAll(s, SortDesc(list))
         IN  [s1 EXCEPT !.tweetsBuffer = Truncate(@)]

(* ---------------------------- core fetch ------------------------------ *)

\* fresh = since ? tweets.filter(t => t.id > since) : tweets
FilterFresh(since, tweets) ==
    IF since # NoId THEN SelectSeq(tweets, LAMBDA t : StrGT(t.id, since)) ELSE tweets

\* if (fresh.length) lastSeenByHandle[handle] = fresh[0].id
AdvanceCursor(since, fresh) == IF fresh # <<>> THEN fresh[1].id ELSE since

\* The try branch of fetchLastTweets for a response carrying `raw`.
fetchOk(s, handle, raw) ==
    LET fresh == FilterFresh(s.lastSeenByHandle[handle], mapTweets(raw))
    IN  [s EXCEPT !.lastSeenByHandle[handle] = AdvanceCursor(@, fresh)]

FreshOf(s, handle, raw) == FilterFresh(s.lastSeenByHandle[handle], mapTweets(raw))

\* A catch branch that forgets the cursors on an error other than 402.
fetchErrForgets(s, st, t) ==
    IF st = 402 THEN [s EXCEPT !.suspendedUntil = t + SUSPEND_COOLDOWN_MS]
    ELSE [s EXCEPT !.lastSeenByHandle = [h \in Handles |-> NoId]]

\* The catch branch for the statuses that return at once (not 429).
fetchErr(s, st, t) ==
    IF st = 402 THEN [s EXCEPT !.suspendedUntil = t + SUSPEND_COOLDOWN_MS] ELSE s

(* ------------------------- tasks and timers --------------------------- *)

\* A task is one invocation of priorityLoopOnce / baseLoopOnce (kind "P" /
\* "B", at account i of its tier) or of a burst timer's callback (kind
\* "burst"), parked at
\*   pc = "http"    : await http.get, sent at `at`
\*   pc = "gap"     : await sleep(GAP_MS), waking at `at`
\*   pc = "backoff" : await sleep(BASE_INTERVAL) after a 429, waking at `at`
\* start is TRUE for the loops startMonitoring awaits in its initial pass.
Task(kind, i, handle, pc, at, start) ==
    [kind |-> kind, i |-> i, handle |-> handle, pc |-> pc, at |-> at, start |-> start]

\* An active interval of the runtime.
Timer(id, kind, handle, due, period) ==
    [id |-> id, kind |-> kind, handle |-> handle, due |-> due, period |-> period]

\* setInterval(cb, period) at time t; the handle is s.nextTimer.
setInterval(s, kind, handle, period, t) ==
    [s EXCEPT !.timers = @ \cup {Timer(s.nextTimer, kind, handle, t + period, period)},
              !.nextTimer = @ + 1,
              !.ok = @ /\ s.nextTimer <= MaxTimers]

\* clearInterval(id): a no-op on null and on a handle already cleared.
clearInterval(s, id) == [s EXCEPT !.timers = {x \in @ : x.id # id}]

\* http.get is called: the task parks on the response.
httpGet(s, task, t) ==
    [s EXCEPT !.tasks = @ \cup {[task EXCEPT !.pc = "http", !.at = t]},
              !.nCalls = @ + 1,
              !.ok = @ /\ s.nCalls < limits.calls]

(* --------------------------- burst control ---------------------------- *)

ensureBurst(s, handle, t) ==
    LET s1 == [s EXCEPT !.burstUntil[handle] = Max(@, t + BURST_WINDOW_MS)]
    IN  IF s1.burstTimers[handle] # 0 THEN s1
        ELSE [setInterval(s1, "burst", handle, BURST_INTERVAL, t)
                 EXCEPT !.burstTimers[handle] = s1.nextTimer]

\* A burst callback that never ends its burst.
burstTickNoExpiry(s, tm, t) ==
    IF t < s.suspendedUntil THEN s
    ELSE IF s.burstUntil[tm.handle] <= t
         THEN s
         ELSE httpGet(s, Task("burst", 0, tm.handle, "http", t, FALSE), t)

\* The callback of a burst timer, up to its await.
burstTick(s, tm, t) ==
    IF t < s.suspendedUntil THEN s
    ELSE IF s.burstUntil[tm.handle] <= t
         THEN [clearInterval(s, tm.id) EXCEPT !.burstTimers[tm.handle] = 0]
         ELSE httpGet(s, Task("burst", 0, tm.handle, "http", t, FALSE), t)

(* ------------------------------- loops -------------------------------- *)

\* The tail of startMonitoring: schedule loops.
scheduleLoops(s, t) ==
    LET s1 == [setInterval(s, "P", "-", PRIORITY_INTERVAL, t)
                  EXCEPT !.priorityTimer = s.nextTimer]
    IN  [setInterval(s1, "B", "-", BASE_INTERVAL, t)
            EXCEPT !.baseTimer = s1.nextTimer]

baseLoopOnce(s, start, t) ==
    IF t < s.suspendedUntil \/ Len(BASE) = 0
    THEN LET s1 == IF t < s.suspendedUntil THEN s ELSE [s EXCEPT !.lastPollAtBase = t]
         IN  IF start THEN scheduleLoops(s1, t) ELSE s1
    ELSE httpGet([s EXCEPT !.lastPollAtBase = t],
                 Task("B", 1, BASE[1], "http", t, start), t)

\* A priority loop that stays suspended once a 402 has set the guard.
priorityLoopOnceLatched(s, start, t) ==
    IF s.suspendedUntil > 0 \/ Len(PRIORITY) = 0
    THEN LET s1 == IF s.suspendedUntil > 0 THEN s ELSE [s EXCEPT !.lastPollAtPriority = t]
         IN  IF start THEN baseLoopOnce(s1, TRUE, t) ELSE s1
    ELSE httpGet([s EXCEPT !.lastPollAtPriority = t],
                 Task("P", 1, PRIORITY[1], "http", t, start), t)

priorityLoopOnce(s, start, t) ==
    IF t < s.suspendedUntil \/ Len(PRIORITY) = 0
    THEN LET s1 == IF t < s.suspendedUntil THEN s ELSE [s EXCEPT !.lastPollAtPriority = t]
         IN  IF start THEN baseLoopOnce(s1, TRUE, t) ELSE s1
    ELSE httpGet([s EXCEPT !.lastPollAtPriority = t],
                 Task("P", 1, PRIORITY[1], "http", t, start), t)

\* A loop returned: startMonitoring, if it awaited it, goes on.
loopDone(s, task, t) ==
    IF ~task.start THEN s
    ELSE IF task.kind = "P" THEN baseLoopOnce(s, TRUE, t) ELSE scheduleLoops(s, t)

\* A tier loop that gives up its cycle when a fetch returns nothing.
loopStepStopsOnEmpty(s, task, fresh, t) ==
    LET s1 == IF fresh # <<>>
              THEN ensureBurst(pushTweets(s, fresh), task.handle, t)
              ELSE s
    IN  IF fresh # <<>> /\ task.i < Len(Tier(task.kind))
        THEN [s1 EXCEPT !.tasks = @ \cup
                 {Task(task.kind, task.i + 1, Tier(task.kind)[task.i + 1],
                       "gap", t + GAP_MS, task.start)}]
        ELSE loopDone(s1, task, t)

\* A tier loop that goes on to its next account without the pacing sleep.
loopStepNoGap(s, task, fresh, t) ==
    LET s1 == IF fresh # <<>>
              THEN ensureBurst(pushTweets(s, fresh), task.handle, t)
              ELSE s
    IN  IF task.i < Len(Tier(task.kind))
        THEN [s1 EXCEPT !.tasks = @ \cup
                 {Task(task.kind, task.i + 1, Tier(task.kind)[task.i + 1],
                       "gap", t, task.start)}]
        ELSE loopDone(s1, task, t)

\* What a tier loop does with the result of fetchLastTweets, and its next
\* iteration.
loopStep(s, task, fresh, t) ==
    LET s1 == IF fresh # <<>>
              THEN ensureBurst(pushTweets(s, fresh), task.handle, t)
              ELSE s
    IN  IF task.i < Len(Tier(task.kind))
        THEN [s1 EXCEPT !.tasks = @ \cup
                 {Task(task.kind, task.i + 1, Tier(task.kind)[task.i + 1],
                       "gap", t + GAP_MS, task.start)}]
        ELSE loopDone(s1, task, t)

\* What a burst callback does with the result of fetchLastTweets.
burstStep(s, task, fresh, t) ==
    IF fresh # <<>>
    THEN [pushTweets(s, fresh) EXCEPT !.burstUntil[task.handle] = t + BURST_WINDOW_MS]
    ELSE s

afterFetch(s, task, fresh, t) ==
    IF task.kind = "burst" THEN burstStep(s, task, fresh, t)
    ELSE loopStep(s, task, fresh, t)

(* ----------------------------- public API ----------------------------- *)

startMonitoring(s, t) ==
    IF s.isMonitoring THEN s
    ELSE IF Len(PRIORITY) + Len(BASE) = 0 THEN s
    ELSE priorityLoopOnce([s EXCEPT !.isMonitoring = TRUE], TRUE, t)

RECURSIVE clearAll(_, _)
clearAll(s, ids) ==
    IF ids = {} THEN s
    ELSE LET id == CHOOSE x \in ids : TRUE
         IN  clearAll(clearInterval(s, id), ids \ {id})

\* stop() that also lifts the suspension.
stopMonitoringClearsSuspend(s) ==
    LET s1 == clearInterval(clearInterval(s, s.priorityTimer), s.baseTimer)
        s2 == clearAll(s1, {s1.burstTimers[h] : h \in Handles})
    IN  [s2 EXCEPT !.burstTimers = [h \in Handles |-> 0],
                   !.isMonitoring = FALSE,
                   !.suspendedUntil = 0]

stopMonitoring(s) ==
    LET s1 == clearInterval(clearInterval(s, s.priorityTimer), s.baseTimer)
        s2 == clearAll(s1, {s1.burstTimers[h] : h \in Handles})
    IN  [s2 EXCEPT !.burstTimers = [h \in Handles |-> 0],
                   !.isMonitoring = FALSE]

\* new Date(ms).toISOString(): the text of the instant, kept as the
\* one-element list of its milliseconds; null is the empty list.
toISOString(ms) == <<ms>>

Null == <<>>

\* A status() that keeps reporting a suspension after its end.
getStatusStale ==
    [ok |-> TRUE,
     monitoring |-> isMonitoring,
     priorityAccounts |-> PRIORITY,
     baseAccounts |-> BASE,
     totalTweets |-> Len(tweetsBuffer),
     lastPollAtPriority |-> lastPollAtPriority,
     lastPollAtBase |-> lastPollAtBase,
     priorityIntervalMs |-> PRIORITY_INTERVAL,
     baseIntervalMs |-> BASE_INTERVAL,
     gapMs |-> GAP_MS,
     burstWindowMs |-> BURST_WINDOW_MS,
     suspended |-> suspendedUntil > 0,
     suspendedUntil |-> IF suspendedUntil > 0 THEN toISOString(suspendedUntil) ELSE Null]

getStatus ==
    [ok |-> TRUE,
     monitoring |-> isMonitoring,
     priorityAccounts |-> PRIORITY,
     baseAccounts |-> BASE,
     totalTweets |-> Len(tweetsBuffer),
     lastPollAtPriority |-> lastPollAtPriority,
     lastPollAtBase |-> lastPollAtBase,
     priorityIntervalMs |-> PRIORITY_INTERVAL,
     baseIntervalMs |-> BASE_INTERVAL,
     gapMs |-> GAP_MS,
     burstWindowMs |-> BURST_WINDOW_MS,
     suspended |-> now < suspendedUntil,
     suspendedUntil |-> IF now < suspendedUntil THEN toISOString(suspendedUntil) ELSE Null]

(* ------------------------------ actions ------------------------------- *)

\* A run with every kind of step, over the first ten minutes.
InitLimits == limits = [calls |-> MaxFetches, time |-> MaxTime, starts |-> MaxStarts]

\* A run past the end of a burst window and of a suspension.
InitLongLimits ==
    limits = [calls |-> MaxLongFetches, time |-> MaxLongTime, starts |-> MaxLongStarts]

\* The module's constants as loaded from one environment.
InitConfig ==
    \E env \in EnvConfigs :
        /\ PRIORITY = ParsePriority(env.pri)
        /\ BASE = ParseBase(env.base, ParsePriority(env.pri))

\* The tiered monitor's state when the module is loaded, but for the cursors.
InitRest ==
    /\ now = 0
    /\ tweetsBuffer = <<>>
    /\ priorityTimer = 0
    /\ baseTimer = 0
    /\ burstTimers = [h \in Handles |-> 0]
    /\ burstUntil = [h \in Handles |-> 0]
    /\ suspendedUntil = 0
    /\ lastPollAtPriority = -1
    /\ lastPollAtBase = -1
    /\ isMonitoring = FALSE
    /\ timers = {}
    /\ nextTimer = 1
    /\ tasks = {}
    /\ nCalls = 0
    /\ emitCount = [id \in AllIds |-> 0]
    /\ lastStatus = 0
    /\ nStarts = 0

\* The tiered monitor's state when the module is loaded.
InitMonitor ==
    /\ lastSeenByHandle = [h \in Handles |-> NoId]
    /\ InitRest

InitDedupIdle ==
    /\ d_handle = "p1"
    /\ d_batch = <<>>
    /\ d_results = <<>>
    /\ b_batch = <<>>

\* The TwitterMonitor class after its constructor.
InitClass ==
    /\ c_lastSeenIdByUser = [u \in ClassAccounts |-> NoId]
    /\ c_tweets = <<>>
    /\ c_isFetching = FALSE
    /\ c_i = 0
    /\ c_newTweets = <<>>

\* No sentiment analysis under way and nothing handed to the aggregators.
InitEnsembleIdle ==
    /\ e_models = <<>>
    /\ e_rule = "weighted"
    /\ e_pc = "idle"
    /\ e_i = 0
    /\ e_results = <<>>
    /\ e_replies = <<>>
    /\ e_wait = 0
    /\ e_out = <<>>
    /\ e_votes = <<>>
    /\ e_agg = <<>>

\* Every component modelled on its own is idle, but for the one named.
InitOthers(own) ==
    /\ own = "imp" \/ imp = <<>>
    /\ own = "reg" \/ reg = <<>>
    /\ own = "res" \/ res = <<>>
    /\ own = "mon" \/ mon = <<>>
    /\ own = "app" \/ app = <<>>
    /\ own = "soc" \/ soc = <<>>

Init ==
    /\ InitLimits /\ InitConfig /\ InitMonitor /\ InitDedupIdle /\ InitClass
    /\ InitEnsembleIdle /\ InitOthers("none")

\* The control surface calls start().
Start ==
    /\ nStarts < limits.starts
    /\ ~isMonitoring
    /\ Commit(startMonitoring(Cur, now))
    /\ nStarts' = nStarts + 1
    /\ UNCHANGED <<PRIORITY, BASE, limits, now, dvars, cvars, evars, xvars>>

\* The control surface calls stop().
Stop ==
    /\ Commit(stopMonitoring(Cur))
    /\ UNCHANGED <<PRIORITY, BASE, limits, now, nStarts, dvars, cvars, evars, xvars>>

\* The runtime fires a due interval and runs its callback up to its await.
TimerFire(tm) ==
    /\ tm \in timers
    /\ tm.due = now
    /\ LET s0 == [Cur EXCEPT !.timers = (@ \ {tm}) \cup {[tm EXCEPT !.due = @ + tm.period]}]
           tm1 == [tm EXCEPT !.due = @ + tm.period]
       IN  Commit(CASE tm.kind = "P" -> priorityLoopOnce(s0, FALSE, now)
                    [] tm.kind = "B" -> baseLoopOnce(s0, FALSE, now)
                    [] OTHER -> burstTick(s0, tm1, now))
    /\ UNCHANGED <<PRIORITY, BASE, limits, now, nStarts, dvars, cvars, evars, xvars>>

\* The provider answers 200 with a list of tweets, in any order.
HttpOk(task) ==
    /\ task \in tasks
    /\ task.pc = "http"
    /\ \E raw \in Perms(RawOf(task.handle)) :
          LET s0 == [Cur EXCEPT !.tasks = @ \ {task}, !.lastStatus = 200]
          IN  Commit(afterFetch(fetchOk(s0, task.handle, raw), task,
                                FreshOf(s0, task.handle, raw), now))
    /\ UNCHANGED <<PRIORITY, BASE, limits, now, nStarts, dvars, cvars, evars, xvars>>

ErrorStatuses == {402, 404, 500}

\* The provider answers 402, 404 or 5xx: fetchLastTweets returns [].
HttpError(task) ==
    /\ task \in tasks
    /\ task.pc = "http"
    /\ \E st \in ErrorStatuses :
          LET s0 == [Cur EXCEPT !.tasks = @ \ {task}, !.lastStatus = st]
          IN  Commit(afterFetch(fetchErr(s0, st, now), task, <<>>, now))
    /\ UNCHANGED <<PRIORITY, BASE, limits, now, nStarts, dvars, cvars, evars, xvars>>

\* The provider answers 429: fetchLastTweets sleeps BASE_INTERVAL.
HttpRateLimited(task) ==
    /\ task \in tasks
    /\ task.pc = "http"
    /\ Commit([Cur EXCEPT !.tasks = (@ \ {task}) \cup
                    {[task EXCEPT !.pc = "backoff", !.at = now + BASE_INTERVAL]},
                  !.lastStatus = 429])
    /\ UNCHANGED <<PRIORITY, BASE, limits, now, nStarts, dvars, cvars, evars, xvars>>

\* sleep(BASE_INTERVAL) is over: fetchLastTweets returns [].
WakeBackoff(task) ==
    /\ task \in tasks
    /\ task.pc = "backoff"
    /\ task.at = now
    /\ Commit(afterFetch([Cur EXCEPT !.tasks = @ \ {task}], task, <<>>, now))
    /\ UNCHANGED <<PRIORITY, BASE, limits, now, nStarts, dvars, cvars, evars, xvars>>

\* sleep(GAP_MS) is over: the loop calls fetchLastTweets for its next account.
WakeGap(task) ==
    /\ task \in tasks
    /\ task.pc = "gap"
    /\ task.at = now
    /\ Commit(httpGet([Cur EXCEPT !.tasks = @ \ {task}], task, now))
    /\ UNCHANGED <<PRIORITY, BASE, limits, now, nStarts, dvars, cvars, evars, xvars>>

\* The moments at which something is due: intervals, sleeps, and the answers
\* to the requests in flight.  A round trip is short against every interval
\* of the scheduler (axios gives up after 12 s): the clock does not move
\* while a request is in flight, but any other handler may run meanwhile.
Deadlines ==
    {tm.due : tm \in timers}
      \cup {k.at : k \in {x \in tasks : x.pc # "http"}}
      \cup {k.at : k \in {x \in tasks : x.pc = "http"}}

\* Time passes to the next deadline, once everything due now has run.
Tick ==
    /\ Deadlines # {}
    /\ \A d \in Deadlines : d > now
    /\ Min(Deadlines) <= limits.time
    /\ now' = Min(Deadlines)
    /\ UNCHANGED <<PRIORITY, BASE, limits, mvars, nStarts, dvars, cvars, evars, xvars>>

Next ==
    \/ Start
    \/ Stop
    \/ \E tm \in timers : TimerFire(tm)
    \/ \E task \in tasks : HttpOk(task)
    \/ \E task \in tasks : HttpError(task)
    \/ \E task \in tasks : HttpRateLimited(task)
    \/ \E task \in tasks : WakeBackoff(task)
    \/ \E task \in tasks : WakeGap(task)
    \/ Tick

Spec == Init /\ [][Next]_vars

InitLong ==
    /\ InitLongLimits /\ InitConfig /\ InitMonitor /\ InitDedupIdle /\ InitClass
    /\ InitEnsembleIdle /\ InitOthers("none")

\* The same steps, followed over half an hour.
SpecLong == InitLong /\ [][Next]_vars

(* ------------------------ claims: the scheduler ----------------------- *)

\* C1: while now < suspendedUntil no provider call is started, by any tier
\* loop, any burst timer, or the rest of a tier cycle already under way.
C1_NoCallWhileSuspended ==
    [][nCalls' > nCalls => ~(now < suspendedUntil)]_vars

\* C3: every post id is unshifted into the event buffer at most once over the
\* whole run.
C3_EmittedAtMostOnce == \A id \in AllIds : emitCount[id] <= 1

\* C6: after stop() and before the next start() (isMonitoring is FALSE) no
\* tier timer and no burst timer is active.
C6_NoTimerWhileStopped == ~isMonitoring => timers = {}

BurstHandles(tms) == {tm.id : tm \in {x \in tms : x.kind = "burst"}}

\* C7: while the monitoring-active flag is FALSE a completing fetch adds
\* nothing to the event buffer, advances no cursor and starts no burst.
C7_DiscardedAfterStop ==
    [][(~isMonitoring /\ ~isMonitoring') =>
          /\ tweetsBuffer' = tweetsBuffer
          /\ lastSeenByHandle' = lastSeenByHandle
          /\ BurstHandles(timers') \subseteq BurstHandles(timers)]_vars

\* A cycle the tier's timer fired got a 429 and sleeps its backoff.
InBackoff(kind) == \E k \in tasks : k.kind = kind /\ k.pc = "backoff" /\ ~k.start

\* A tier timer's callback starts a cycle in this step: it calls
\* fetchLastTweets for the tier's first account.
TimerCycleStarts(kind) ==
    \E k \in tasks' \ tasks : k.kind = kind /\ k.i = 1 /\ k.pc = "http" /\ ~k.start

\* C8: while a tier sleeps the 429 backoff (one BASE_INTERVAL) its timer
\* starts no cycle of that tier.
C8_NoCycleDuringBackoff ==
    [][\A kind \in {"P", "B"} : InBackoff(kind) => ~TimerCycleStarts(kind)]_vars

\* C9: suspendedUntil changes only in the step that completes a call with
\* HTTP 402, and then it grows; start, stop and every other outcome leave it.
C9_SuspendOnlyBy402 ==
    [][suspendedUntil' # suspendedUntil =>
          /\ \E k \in tasks \ tasks' : k.pc = "http"
          /\ lastStatus' = 402
          /\ suspendedUntil' = now + SUSPEND_COOLDOWN_MS
          /\ suspendedUntil' > suspendedUntil]_vars

\* C9 witness: a suspension set by a 402 is still in place after a later
\* call completed with another status and stop() was called.
C9_Witness ==
    /\ now < suspendedUntil
    /\ ~isMonitoring
    /\ nStarts > 0
    /\ lastStatus \notin {0, 402}

\* C10: every burst timer's period is strictly shorter than the polling
\* interval of its account's tier.
C10_BurstFasterThanTier ==
    \A tm \in timers :
        tm.kind = "burst" => tm.period < TierInterval(TierOf(tm.handle))

(* --------------------- claims: burst and pacing ----------------------- *)

\* The burst timers the runtime holds for account h.
BurstTimersOf(h) == {tm \in timers : tm.kind = "burst" /\ tm.handle = h}

\* A burst callback calls the provider for h in this step.
BurstCallStarts(h) ==
    \E k \in tasks' \ tasks : k.kind = "burst" /\ k.handle = h /\ k.pc = "http"

\* C11: a burst timer that is still active last fired (or was created) before
\* its burst deadline or before the end of a suspension, so the first firing
\* at or after the deadline with polling allowed cancels and removes it; and
\* a burst poll of an account is made only by its active burst timer, within
\* the window: with the timer gone only the tier loops poll the account.
C11_BurstExpires ==
    /\ [](\A tm \in timers :
             tm.kind = "burst" =>
                 /\ tm.due - tm.period < Max(burstUntil[tm.handle], suspendedUntil)
                 /\ burstTimers[tm.handle] = tm.id)
    /\ [][\A h \in Handles :
             BurstCallStarts(h) =>
                 /\ BurstTimersOf(h) # {}
                 /\ now < burstUntil[h]]_vars

\* C11 witness: the scheduler runs, the window of an account that was in
\* Burst has passed, and its burst timer is gone.
C11_Witness ==
    /\ isMonitoring
    /\ \E h \in Handles :
          /\ burstUntil[h] > 0
          /\ burstUntil[h] <= now
          /\ burstTimers[h] = 0
          /\ BurstTimersOf(h) = {}

\* A fetch for h completes in this step with novel posts: the only
\* assignment to the cursor is the one made for a non-empty result.
NonEmptyFetch(h) ==
    /\ \E k \in tasks \ tasks' : k.pc = "http" /\ k.handle = h
    /\ lastSeenByHandle'[h] # lastSeenByHandle[h]

\* The account has an active burst timer, registered in burstTimers.
InBurst(h) == burstTimers[h] # 0 /\ \E tm \in BurstTimersOf(h) : tm.id = burstTimers[h]

\* C12: every non-empty fetch for an account, by a tier loop or by the
\* account's burst timer, leaves the account in Burst with a deadline of at
\* least the time of the fetch plus the burst window.  Stated for the
\* fetches that complete while the scheduler is running.
C12_NonEmptyFetchBursts ==
    [][\A h \in Handles :
          (NonEmptyFetch(h) /\ isMonitoring /\ isMonitoring') =>
              /\ InBurst(h)'
              /\ burstUntil'[h] >= now + BURST_WINDOW_MS]_vars

\* Tasks k and g are the same loop invocation, g one account further on.
NextAccountOf(k, g) ==
    /\ k.kind = g.kind
    /\ k.start = g.start
    /\ k.i = g.i - 1
    /\ g.handle = Tier(g.kind)[g.i]

\* C13: in one firing of a tier the calls are made one after the other: the
\* loop parks in its pacing sleep only when its previous call has completed,
\* for GAP_MS from that moment, and the call for the next account starts
\* only when that sleep is over.
C13_PacedSequential ==
    [][/\ \A g \in tasks' \ tasks :
             g.pc = "gap" =>
                 /\ g.at = now + GAP_MS
                 /\ \E k \in tasks \ tasks' :
                       k.pc \in {"http", "backoff"} /\ NextAccountOf(k, g)
       /\ \A c \in tasks' \ tasks :
             (c.kind \in {"P", "B"} /\ c.pc = "http" /\ c.i > 1) =>
                 \E g \in tasks \ tasks' :
                     /\ g.pc = "gap"
                     /\ g.at = now
                     /\ g.kind = c.kind /\ g.i = c.i
                     /\ g.handle = c.handle /\ g.start = c.start]_vars

\* C13 witness: the call for the second account of a firing is in flight,
\* started a pacing gap after the first call completed.
C13_Witness ==
    \E c \in tasks : c.pc = "http" /\ c.i = 2 /\ c.at >= GAP_MS /\ nCalls >= 2

(* ------------------------ claims: error handling ---------------------- *)

\* A call completes in this step with a NotFound (404) or a Transient (5xx,
\* or no response at all) error.
SoftErrorStep ==
    /\ \E k \in tasks \ tasks' : k.pc = "http"
    /\ lastStatus' \in {404, 500}

\* C17: a fetch that ends in a Transient or NotFound error returns no post
\* (nothing is pushed, no burst is started or extended) and leaves every
\* cursor as it was.
C17_SoftErrorKeepsCursor ==
    [][SoftErrorStep =>
          /\ lastSeenByHandle' = lastSeenByHandle
          /\ tweetsBuffer' = tweetsBuffer
          /\ burstUntil' = burstUntil
          /\ suspendedUntil' = suspendedUntil]_vars

\* C17 witness: the last call ended in such an error and a cursor that an
\* earlier fetch had set is in place.
C17_Witness ==
    /\ lastStatus \in {404, 500}
    /\ \E h \in Handles : lastSeenByHandle[h] # NoId

\* C18: a Transient or NotFound error on an account does not end the
\* firing: the loop goes on to its pacing sleep for the next account of the
\* tier, and when that sleep is over the call for that account is made.
C18_ErrorDoesNotStopCycle ==
    [][/\ \A k \in tasks \ tasks' :
             (/\ k.pc = "http"
              /\ k.kind \in {"P", "B"}
              /\ lastStatus' \in {404, 500}
              /\ k.i < Len(Tier(k.kind)))
             => \E g \in tasks' :
                    g.pc = "gap" /\ NextAccountOf(k, g) /\ g.at = now + GAP_MS
       /\ \A g \in tasks \ tasks' :
             g.pc = "gap"
             => \E c \in tasks' :
                    /\ c.pc = "http" /\ c.at = now
                    /\ c.kind = g.kind /\ c.i = g.i /\ c.handle = g.handle]_vars

\* C18 witness: the call for the first account of a firing ended in such an
\* error and the call for the second account is in flight.
C18_Witness ==
    /\ lastStatus \in {404, 500}
    /\ nCalls = 2
    /\ \E c \in tasks : c.pc = "http" /\ c.i = 2 /\ c.at = GAP_MS

\* C19: an invocation of the provider fetch makes its one HTTP call and
\* returns when the call completes, whatever the outcome: it is never parked
\* in a sleep of its own.
C19_FetchNeverSleeps == \A k \in tasks : k.pc # "backoff"

(* ----------------------------- claims: status ------------------------- *)

\* A call completes in this step with HTTP 402.
BillingExhaustedStep ==
    /\ \E k \in tasks \ tasks' : k.pc = "http"
    /\ lastStatus' = 402

\* The instant a status() result gives as the end of the suspension.
ReportedEnd(st) == st.suspendedUntil[1]

\* C20: status() reports suspended:true, with the end of the suspension, from
\* the step that receives a 402 until the cooldown counted from that step is
\* over, and suspended:false with no end time at every other moment: before
\* the first 402 and from the end of the cooldown on.
C20_StatusReportsSuspension ==
    /\ [](getStatus.suspended <=> getStatus.suspendedUntil # Null)
    /\ [][BillingExhaustedStep =>
             /\ getStatus'.suspended
             /\ getStatus'.suspendedUntil = toISOString(now + SUSPEND_COOLDOWN_MS)]_vars
    /\ [][(getStatus.suspended /\ ~BillingExhaustedStep) =>
             IF now' < ReportedEnd(getStatus)
             THEN getStatus'.suspended /\ getStatus'.suspendedUntil = getStatus.suspendedUntil
             ELSE ~getStatus'.suspended]_vars
    /\ [][(~getStatus.suspended /\ ~BillingExhaustedStep) => ~getStatus'.suspended]_vars

\* C20 witness: a 402 was received, its cooldown is over, and status()
\* reports suspended:false again.
C20_Witness ==
    /\ suspendedUntil > 0
    /\ now >= suspendedUntil
    /\ ~getStatus.suspended
    /\ getStatus.suspendedUntil = Null

\* The interval tm fires in this step: it was due and is rescheduled or gone.
Fires(tm) == tm \in timers /\ tm.due = now /\ tm \notin timers'

\* A callback of this kind starts a provider call for h in this step.
CallStarts(kind, h) ==
    /\ nCalls' = nCalls + 1
    /\ \E k \in tasks' : k.kind = kind /\ k.handle = h /\ k.pc = "http" /\ k.at = now

\* C39: a suspension needs no reset.  While the scheduler runs, a step inside
\* a suspension removes no timer; and once suspendedUntil has passed, every
\* firing of the timer of a tier that has accounts starts a provider call
\* for the tier's first account, and every firing of a burst timer either
\* starts a call for its account or cancels and unregisters the timer.
C39_SuspensionEndsByItself ==
    [][isMonitoring /\ isMonitoring' =>
          /\ now < suspendedUntil =>
                \A tm \in timers : \E tm2 \in timers' : tm2.id = tm.id
          /\ now >= suspendedUntil =>
                \A tm \in timers :
                    Fires(tm) =>
                        IF tm.kind = "burst"
                        THEN \/ CallStarts("burst", tm.handle)
                             \/ /\ \A tm2 \in timers' : tm2.id # tm.id
                                /\ burstTimers'[tm.handle] # tm.id
                        ELSE Tier(tm.kind) # <<>> =>
                                CallStarts(tm.kind, Tier(tm.kind)[1])]_vars

\* C39 witness: a 402 suspended polling, the cooldown is over, and the timer
\* of a tier has fired since and has its call in flight.
C39_Witness ==
    /\ isMonitoring
    /\ suspendedUntil > 0
    /\ \E k \in tasks :
          /\ k.kind \in {"P", "B"} /\ k.pc = "http" /\ ~k.start
          /\ k.at >= suspendedUntil

\* A call of a loop of tier `kind` completes in this step with a result.
PollSucceeds(kind) ==
    /\ \E k \in tasks \ tasks' : k.pc = "http" /\ k.kind = kind
    /\ lastStatus' = 200

\* C21: the last-poll time status() reports for a tier changes only in a
\* step in which a poll of that tier succeeds: not when a cycle starts, not
\* when its fetches fail, not when the cycle is skipped.
C21_LastPollIsLastSuccess ==
    [][/\ getStatus'.lastPollAtPriority # getStatus.lastPollAtPriority
             => PollSucceeds("P")
       /\ getStatus'.lastPollAtBase # getStatus.lastPollAtBase
             => PollSucceeds("B")]_vars

\* C34: the runtime holds at most one interval of the priority tier, at most
\* one of the base tier, and at most one burst interval per account.
C34_OneTimerPerRole ==
    \A a, b \in timers : a.kind = b.kind /\ a.handle = b.handle => a = b

(* ------------------- the dedup tracker on its own --------------------- *)

\* One account with any cursor it can have reached, and one list the provider
\* may return for it; fetchLastTweets is then given that list twice.
InitDedup ==
    /\ InitLimits
    /\ InitConfig
    /\ InitRest
    /\ InitClass
    /\ InitEnsembleIdle
    /\ InitOthers("none")
    /\ d_handle \in Range(PRIORITY) \cup Range(BASE)
    /\ \E c \in DedupIds \cup {NoId} :
          lastSeenByHandle = [h \in Handles |-> IF h = d_handle THEN c ELSE NoId]
    /\ d_batch \in Perms(DedupRaw(d_handle))
    /\ d_results = <<>>
    /\ b_batch = <<>>

\* fetchLastTweets(d_handle) gets d_batch from the provider.
DedupCall ==
    /\ Len(d_results) < 2
    /\ LET s == fetchOk(Cur, d_handle, d_batch)
       IN  /\ lastSeenByHandle' = s.lastSeenByHandle
           /\ d_results' = Append(d_results,
                  [since  |-> lastSeenByHandle[d_handle],
                   fresh  |-> FreshOf(Cur, d_handle, d_batch),
                   cursor |-> s.lastSeenByHandle[d_handle]])
    /\ UNCHANGED <<PRIORITY, BASE, limits, now, tweetsBuffer, priorityTimer, baseTimer,
                   burstTimers, burstUntil, suspendedUntil, lastPollAtPriority,
                   lastPollAtBase, isMonitoring, timers, nextTimer, tasks, nCalls,
                   emitCount, lastStatus, nStarts, d_handle, d_batch, b_batch, cvars, evars, xvars>>

NextDedup == DedupCall

SpecDedup == InitDedup /\ [][NextDedup]_vars

\* C2: the second of two successive calls with the same list returns [].
C2_SecondCallEmpty == Len(d_results) = 2 => d_results[2].fresh = <<>>

\* C5: a call that returns novel posts leaves the cursor at the largest id
\* of the list, and returns exactly the posts whose id exceeds the cursor it
\* found (all of them when no cursor was set).
C5_CursorIsMaxOfBatch ==
    \A k \in DOMAIN d_results :
        d_results[k].fresh # <<>> =>
            /\ d_results[k].cursor = StrMax(Ids(mapTweets(d_batch)))
            /\ d_results[k].fresh =
                   SelectSeq(mapTweets(d_batch),
                             LAMBDA t : d_results[k].since = NoId
                                        \/ StrGT(t.id, d_results[k].since))

(* -------------------- the event buffer on its own --------------------- *)

\* Every post the modelled provider holds.
AllPosts == UNION {RawOf(h) : h \in Handles}

\* The lists pushTweets can be given: what a fetch returned, or a batch of
\* the replay, which may hold a post twice.
Batches == UNION {[1..n -> AllPosts] : n \in 0..MaxBatch}

\* pushTweets(list), called by a tier loop, a burst callback or the replay.
PushBatch ==
    /\ \E list \in Batches :
          /\ Commit(pushTweets(Cur, list))
          /\ b_batch' = list
    /\ UNCHANGED <<PRIORITY, BASE, limits, now, nStarts, d_handle, d_batch,
                   d_results, cvars, evars, xvars>>

NextBuffer == PushBatch

SpecBuffer == Init /\ [][NextBuffer]_vars

\* C14: the event buffer never holds two posts with the same id.
C14_NoDuplicateIds ==
    \A i, j \in DOMAIN tweetsBuffer :
        tweetsBuffer[i].id = tweetsBuffer[j].id => i = j

\* C14 witness: the list pushed last held a post twice and a post the
\* buffer held already.
C14_Witness ==
    /\ \E i, j \in DOMAIN b_batch : i # j /\ b_batch[i].id = b_batch[j].id
    /\ \E i \in DOMAIN b_batch : emitCount[b_batch[i].id] = 1 /\ Len(b_batch) = MaxBatch
    /\ Len(tweetsBuffer) = MAX_TWEETS

\* The buffer `new` is `old` with the posts of `list` it did not hold put in
\* front, in some order, and the result cut to MAX_TWEETS from the end.
PushedAndCut(old, list, new) ==
    LET novel == {list[i] : i \in {j \in DOMAIN list : list[j].id \notin Ids(old)}}
    IN  \E x \in Perms(novel) :
            /\ Len(x) = Cardinality(novel)
            /\ new = Take(x \o old, MAX_TWEETS)

\* C15: the event buffer never holds more than MAX_TWEETS posts, and a push
\* that overflows it drops posts from the end of the buffer only.
C15_BoundedDropsOldEnd ==
    /\ [](Len(tweetsBuffer) <= MAX_TWEETS)
    /\ [][PushedAndCut(tweetsBuffer, b_batch', tweetsBuffer')]_vars

\* C15 witness: the buffer is full and a post that was pushed has been
\* dropped from it.
C15_Witness ==
    /\ Len(tweetsBuffer) = MAX_TWEETS
    /\ \E id \in AllIds : emitCount[id] >= 1 /\ id \notin Ids(tweetsBuffer)

\* C16: the event buffer is newest-first: every post sits before all the
\* posts of the buffer with an older creation time.
C16_NewestFirst ==
    \A i, j \in DOMAIN tweetsBuffer :
        i < j => tweetsBuffer[i].created_at >= tweetsBuffer[j].created_at

\* pushTweets of index.js keeps the buffer as above and, in a mode other than
\* simulation, calls analyzeForLaunch for every post of a PRIORITY author at
\* the moment it unshifts it: the analyses started for post t (2 for more).
autoAnalyses(t) == IF t.author \in Range(PRIORITY) THEN emitCount[t.id] ELSE 0

\* C25: no post has had its analysis started more than once, whatever was
\* pushed, evicted and pushed again.
C25_ScoredExactlyOnce == \A t \in AllPosts : autoAnalyses(t) <= 1

(* ---------------- the TwitterMonitor class (ID-map mode) --------------- *)

\* this.maxTweets
C_MAX_TWEETS == 100

\* fetchTweetsForTarget, the cursor: the id of the first record returned.
\* (fetchUserTweets of the X API variant does the same with raw[0].id.)
cls_cursorAfter(since, mapped) == IF Len(mapped) > 0 THEN mapped[1].id ELSE since

cls_addTweet(list, t) ==
    LET l1 == <<t>> \o list
    IN  IF Len(l1) > C_MAX_TWEETS THEN SubSeq(l1, 1, C_MAX_TWEETS) ELSE l1

cls_processTweet(list, t) ==
    IF \E k \in DOMAIN list : list[k].id = t.id THEN list ELSE cls_addTweet(list, t)

RECURSIVE cls_processAll(_, _)
cls_processAll(list, new) ==
    IF new = <<>> THEN list
    ELSE cls_processAll(cls_processTweet(list, Head(new)), Tail(new))

\* fetchLatestTweets is entered: the guard, then the first account.
ClsCycleStart ==
    /\ ~c_isFetching
    /\ c_isFetching' = TRUE
    /\ c_i' = 1
    /\ c_newTweets' = <<>>
    /\ UNCHANGED <<c_lastSeenIdByUser, c_tweets>>
    /\ UNCHANGED <<PRIORITY, BASE, limits, now, mvars, nStarts, dvars, evars, xvars>>

\* The loop of fetchLatestTweets takes the result for account c_i and goes
\* on; after the last account it sorts, processes and releases the guard.
ClsAdvance(userTweets) ==
    LET all == c_newTweets \o userTweets
    IN  IF c_i < Len(ClassOrder)
        THEN /\ c_i' = c_i + 1
             /\ c_newTweets' = all
             /\ UNCHANGED <<c_tweets, c_isFetching>>
        ELSE /\ c_i' = 0
             /\ c_newTweets' = <<>>
             /\ c_tweets' = cls_processAll(c_tweets, SortDesc(all))
             /\ c_isFetching' = FALSE

\* The provider answers the request of fetchTweetsForTarget with a list.
ClsFetchOk ==
    /\ c_i > 0
    /\ \E raw \in Perms(ClassRawOf(ClassOrder[c_i])) :
          /\ c_lastSeenIdByUser' =
                 [c_lastSeenIdByUser EXCEPT ![ClassOrder[c_i]] = cls_cursorAfter(@, raw)]
          /\ ClsAdvance(raw)
    /\ UNCHANGED <<PRIORITY, BASE, limits, now, mvars, nStarts, dvars, evars, xvars>>

\* The request fails: fetchTweetsForTarget logs and returns [].
ClsFetchErr ==
    /\ c_i > 0
    /\ ClsAdvance(<<>>)
    /\ UNCHANGED c_lastSeenIdByUser
    /\ UNCHANGED <<PRIORITY, BASE, limits, now, mvars, nStarts, dvars, evars, xvars>>

NextClass == ClsCycleStart \/ ClsFetchOk \/ ClsFetchErr

SpecClass == Init /\ [][NextClass]_vars

CursorKept(old, new) == old # NoId => new # NoId /\ ~StrLT(new, old)

\* C4: no step lowers a stored cursor, in the tiered monitor or in the
\* TwitterMonitor class (ids compared as the code compares them).
C4_CursorNeverDecreases ==
    [][/\ \A h \in Handles : CursorKept(lastSeenByHandle[h], lastSeenByHandle'[h])
       /\ \A u \in ClassAccounts :
             CursorKept(c_lastSeenIdByUser[u], c_lastSeenIdByUser'[u])]_vars

(* ----------------- the sentiment ensemble (aiEnsemble.js) ------------- *)

PRIMARY_MODEL == "primary"

SECONDARY_MODEL == "secondary"

PREMIUM_MODEL == "premium"

BACKUP_MODEL == "backup"

\* The JavaScript number NaN, kept apart from every number the model computes.
NaN == -1000000

IsNaN(x) == x = NaN

Clamp(lo, hi, x) == IF x < lo THEN lo ELSE IF x > hi THEN hi ELSE x

\* Math.round(a / b) for b > 0: the nearest integer, a half going up.
RoundDiv(a, b) == (2 * a + b) \div (2 * b)

Abs(x) == IF x < 0 THEN -x ELSE x

\* reduce((a, b) => a + b, 0) over numbers: NaN as soon as one of them is.
RECURSIVE SeqSum(_)
SeqSum(q) ==
    IF q = <<>> THEN 0
    ELSE LET rest == SeqSum(Tail(q))
         IN  IF IsNaN(Head(q)) \/ IsNaN(rest) THEN NaN ELSE Head(q) + rest

\* What a backend can send back as the message content.  A JSON object has
\* a score field or not; free text holds the number the pattern of
\* toSentimentScore finds (-1 for no match) and counts of its keywords.
JsonReplies ==
    {[kind |-> "json", has |-> TRUE, score |-> n] : n \in {-5, 20, 85, 150}}
    \cup {[kind |-> "json", has |-> FALSE, score |-> 0]}

TextReplies ==
    { [kind |-> "text", num |-> -1,  pos |-> 0, neg |-> 0],
      [kind |-> "text", num |-> -1,  pos |-> 3, neg |-> 0],
      [kind |-> "text", num |-> -1,  pos |-> 0, neg |-> 6],
      [kind |-> "text", num |-> 250, pos |-> 0, neg |-> 0] }

\* fetch rejects, or the provider answers with a status that is not ok.
ErrorReply == [kind |-> "error"]

\* parseInt(j.score, 10) on the decoded object.
parseIntScore(j) == IF j.has THEN j.score ELSE NaN

toSentimentScore(text) ==
    IF text.num >= 0 THEN Clamp(0, 100, text.num)
    ELSE IF text.pos = 0 /\ text.neg = 0 THEN 50
    ELSE Clamp(0, 100, 50 + (text.pos - text.neg) * 10)

\* The inner try of analyzeSentiment: JSON.parse, else toSentimentScore.
scoreOfReply(out) ==
    IF out.kind = "json" THEN parseIntScore(out) ELSE toSentimentScore(out)

\* weight(m) of vote, in tenths.
weight(m) ==
    IF m = PREMIUM_MODEL THEN 15
    ELSE IF m = PRIMARY_MODEL THEN 12
    ELSE IF m = SECONDARY_MODEL THEN 10
    ELSE 9

\* A result object where a number is expected: "[object Object]" is no number.
ToNumber(obj) == NaN

\* a >= b and a <= b on numbers: false when either is NaN.
NumGE(a, b) == ~IsNaN(a) /\ ~IsNaN(b) /\ a >= b

NumLE(a, b) == ~IsNaN(a) /\ ~IsNaN(b) /\ a <= b

\* The weighted branch of vote: Math.round(sum(value * weight) / sum(weight)).
voteWeighted(scores) ==
    LET totalW == SeqSum([i \in DOMAIN scores |-> weight(scores[i].model)])
        sumVW  == SeqSum([i \in DOMAIN scores |->
                     IF IsNaN(scores[i].value) THEN NaN
                     ELSE scores[i].value * weight(scores[i].model)])
    IN  IF IsNaN(sumVW) THEN NaN ELSE RoundDiv(sumVW, totalW)

\* The majority branch of vote: it compares and adds the result objects.
voteMajority(scores) ==
    LET highs == Cardinality({i \in DOMAIN scores : NumGE(ToNumber(scores[i]), 60)})
        lows  == Cardinality({i \in DOMAIN scores : NumLE(ToNumber(scores[i]), 40)})
        mean  == LET t == SeqSum([i \in DOMAIN scores |-> ToNumber(scores[i])])
                 IN  IF IsNaN(t) THEN NaN ELSE RoundDiv(t, Len(scores))
    IN  IF highs > lows THEN mean
        ELSE IF lows > highs THEN mean
        ELSE 50

vote(scores, voting) ==
    IF scores = <<>> THEN 50
    ELSE IF voting = "majority" THEN voteMajority(scores)
    ELSE voteWeighted(scores)

\* The confidence analyzeSentiment returns, in thousandths:
\* min(0.99, 1 - sum|value - finalScore| / (n * 100)), then toFixed(3).
confidenceOf(results, finalScore) ==
    LET dev == SeqSum([i \in DOMAIN results |->
                   IF IsNaN(results[i].value) \/ IsNaN(finalScore) THEN NaN
                   ELSE Abs(results[i].value - finalScore)])
    IN  IF IsNaN(dev) THEN NaN
        ELSE LET c == RoundDiv(1000 * Len(results) - 10 * dev, Len(results))
             IN  IF c > 990 THEN 990 ELSE c

\* What analyzeSentiment returns once its loop has results.
sentimentResult(results, voting) ==
    LET finalScore == vote(results, voting)
    IN  [score      |-> finalScore,
         confidence |-> confidenceOf(results, finalScore),
         details    |-> [i \in DOMAIN results |->
                            [model |-> results[i].model, score |-> results[i].value]]]

(* --------------------- analyzeSentiment, step by step ------------------ *)

\* The models list of analyzeSentiment: ENSEMBLE_MODE primary_only, or not.
ModelLists ==
    { <<PRIMARY_MODEL>>,
      <<PRIMARY_MODEL, SECONDARY_MODEL, PREMIUM_MODEL, BACKUP_MODEL>> }

\* The module as loaded under one environment, before any analysis.
InitEnsemble ==
    /\ InitLimits /\ InitConfig /\ InitMonitor /\ InitDedupIdle /\ InitClass
    /\ InitOthers("none")
    /\ e_models \in ModelLists
    /\ e_rule \in {"weighted", "majority"}
    /\ e_pc = "idle"
    /\ e_i = 0
    /\ e_results = <<>>
    /\ e_replies = <<>>
    /\ e_wait = 0
    /\ e_out = <<>>
    /\ e_votes = <<>>
    /\ e_agg = <<>>

EnsUnchanged ==
    UNCHANGED <<PRIORITY, BASE, limits, now, mvars, nStarts, dvars, cvars,
                e_models, e_rule, e_votes, e_agg, xvars>>

\* analyzeSentiment(content) is called and awaits its first backend.
EnsCall ==
    /\ e_pc = "idle"
    /\ e_pc' = "await"
    /\ e_i' = 1
    /\ e_results' = <<>>
    /\ e_replies' = <<>>
    /\ e_wait' = 0
    /\ e_out' = <<>>
    /\ EnsUnchanged

\* The rest of analyzeSentiment once a backend's call has ended with
\* `results`: the next backend, or the end of the loop.
EnsAdvance(results) ==
    /\ e_results' = results
    /\ e_wait' = 0
    /\ IF e_i < Len(e_models)
       THEN /\ e_i' = e_i + 1
            /\ UNCHANGED <<e_pc, e_out>>
       ELSE /\ e_i' = 0
            /\ IF results = <<>>
               THEN e_pc' = "threw" /\ UNCHANGED e_out
               ELSE e_pc' = "done" /\ e_out' = sentimentResult(results, e_rule)

\* The awaited backend answers with content `out`.
EnsAnswer ==
    /\ e_pc = "await"
    /\ \E out \in JsonReplies \cup TextReplies :
          /\ e_replies' = Append(e_replies, out)
          /\ EnsAdvance(Append(e_results,
                 [model |-> e_models[e_i], value |-> scoreOfReply(out)]))
    /\ EnsUnchanged

\* The call fails (fetch rejects, or the status is not ok): the catch of the
\* loop body logs it.
EnsError ==
    /\ e_pc = "await"
    /\ e_replies' = Append(e_replies, ErrorReply)
    /\ EnsAdvance(e_results)
    /\ EnsUnchanged

\* The awaited backend stays silent: callOpenRouter sets no deadline.
EnsWait ==
    /\ e_pc = "await"
    /\ e_wait < MaxWait
    /\ e_wait' = e_wait + TIMEOUT_MS
    /\ UNCHANGED <<e_pc, e_i, e_results, e_replies, e_out>>
    /\ EnsUnchanged

NextEnsemble == EnsCall \/ EnsAnswer \/ EnsError \/ EnsWait

SpecEnsemble == InitEnsemble /\ [][NextEnsemble]_vars

(* ------------------- the class AIEnsemble: combining ------------------- *)

\* A number the class computes without rounding, as a fraction.
Ratio(n, d) == [num |-> n, den |-> d]

\* The consensus with every vote counted alike.
weightedConsensusEven(results) ==
    [sentiment  |-> Ratio(SeqSum([i \in DOMAIN results |-> results[i].sentiment]),
                          Len(results)),
     confidence |-> Ratio(SeqSum([i \in DOMAIN results |-> results[i].confidence]),
                          Len(results))]

\* weightedConsensus(results), confidences in hundredths.  `x || d` takes d
\* for 0 as well as for a missing x.
weightedConsensus(results) ==
    LET weights     == [i \in DOMAIN results |->
                           IF results[i].confidence = 0 THEN 50
                           ELSE results[i].confidence]
        totalWeight == SeqSum(weights)
        sentiment   == SeqSum([i \in DOMAIN results |->
                           (IF results[i].sentiment = 0 THEN 50
                            ELSE results[i].sentiment) * weights[i]])
        confidence  == SeqSum([i \in DOMAIN results |-> weights[i] * weights[i]])
    IN  IF totalWeight = 0
        THEN [sentiment  |-> Ratio(results[1].sentiment, 1),
              confidence |-> Ratio(results[1].confidence, 1)]
        ELSE [sentiment  |-> Ratio(sentiment, totalWeight),
              confidence |-> Ratio(confidence, totalWeight)]

\* combineResults without the return of a single result.
combineResultsAlwaysWeighs(results, method) == weightedConsensus(results)

\* combineResults(results, method): one result is returned as it is; every
\* method but 'simple' goes to weightedConsensus.
combineResults(results, method) ==
    IF Len(results) = 1
    THEN [sentiment  |-> Ratio(results[1].sentiment, 1),
          confidence |-> Ratio(results[1].confidence, 1)]
    ELSE weightedConsensus(results)

(* -------------------- the aggregators on their own --------------------- *)

\* A vote as both modules read it: aiEnsemble.js reads model and value, the
\* class AIEnsemble reads sentiment and confidence (hundredths).
Vote(m, score, c) == [model |-> m, value |-> score, sentiment |-> score, confidence |-> c]

Votes ==
    {Vote(m, sc, c) : m \in {PREMIUM_MODEL, BACKUP_MODEL},
                      sc \in {0, 20, 85, 90}, c \in {30, 80, 90}}

VoteRank(v) == weight(v.model) * 100000 + v.value * 1000 + v.confidence

\* The vote lists handed over, one per multiset of votes.
VoteLists ==
    UNION { {q \in [1..n -> Votes] :
                \A i \in 1..(n - 1) : VoteRank(q[i]) <= VoteRank(q[i + 1])}
            : n \in 1..MaxVotes }

InitVote ==
    /\ InitLimits /\ InitConfig /\ InitMonitor /\ InitDedupIdle /\ InitClass
    /\ InitOthers("none")
    /\ e_models = <<>>
    /\ e_rule \in {"weighted", "majority"}
    /\ e_pc = "idle"
    /\ e_i = 0
    /\ e_results = <<>>
    /\ e_replies = <<>>
    /\ e_wait = 0
    /\ e_out = <<>>
    /\ e_votes \in VoteLists
    /\ e_agg = <<>>

\* The votes go through vote and the confidence of analyzeSentiment
\* (ENSEMBLE_VOTING = e_rule), and through combineResults with the same rule.
Aggregate ==
    /\ e_agg = <<>>
    /\ e_agg' = [vote       |-> vote(e_votes, e_rule),
                 confidence |-> confidenceOf(e_votes, vote(e_votes, e_rule)),
                 consensus  |-> combineResults(e_votes, e_rule)]
    /\ UNCHANGED <<PRIORITY, BASE, limits, now, mvars, nStarts, dvars, cvars,
                   e_models, e_rule, e_pc, e_i, e_results, e_replies, e_wait,
                   e_out, e_votes, xvars>>

NextVote == Aggregate

SpecVote == InitVote /\ [][NextVote]_vars

\* C22: every backend call that ended in an error has left a vote of score 50
\* for its backend in the results (the records of this module carry no
\* confidence), and analyzeSentiment has not thrown.
C22_FailedCallVotesNeutral ==
    /\ e_pc # "threw"
    /\ \A i \in DOMAIN e_replies :
          e_replies[i].kind = "error" =>
              \E k \in DOMAIN e_results :
                  e_results[k].model = e_models[i] /\ e_results[k].value = 50

\* C23: analyzeSentiment never waits for one backend longer than the timeout
\* of a request.
C23_InvocationEndsWithinTimeout == e_pc = "await" => e_wait <= TIMEOUT_MS

\* C24: every vote pushed to the results has a score that is a number in
\* 0..100, whatever the backend sent.
C24_ParsedScoreInRange ==
    \A k \in DOMAIN e_results :
        ~IsNaN(e_results[k].value) /\ e_results[k].value \in 0..100

\* C26: the result analyzeSentiment returns has a final score in 0..100 and a
\* confidence in 0..1 (thousandths).
C26_ResultInBounds ==
    e_pc = "done" =>
        /\ ~IsNaN(e_out.score) /\ e_out.score \in 0..100
        /\ ~IsNaN(e_out.confidence) /\ e_out.confidence \in 0..1000

(* ------------------------ claims: aggregation -------------------------- *)

Aggregated(rule) == e_agg # <<>> /\ e_rule = rule

\* f is the mean of the values of q, to the rounding of Math.round.
NearMean(f, q) ==
    LET t == SeqSum([i \in DOMAIN q |-> q[i].value])
    IN  2 * Abs(f * Len(q) - t) <= Len(q)

\* C27: under the majority rule vote returns the mean of the high bucket
\* (value >= 60) when it holds more than half of the votes, the mean of the
\* low bucket (value <= 40) when that one does, and 50 otherwise.
C27_MajorityRule ==
    Aggregated("majority") =>
        LET highs == SelectSeq(e_votes, LAMBDA v : v.value >= 60)
            lows  == SelectSeq(e_votes, LAMBDA v : v.value <= 40)
        IN  IF 2 * Len(highs) > Len(e_votes) THEN NearMean(e_agg.vote, highs)
            ELSE IF 2 * Len(lows) > Len(e_votes) THEN NearMean(e_agg.vote, lows)
            ELSE e_agg.vote = 50

\* C28: under the weighted rule the final score is
\* sum(score * weight * confidence) / sum(weight * confidence): for vote, with
\* its weight(model), up to the rounding of Math.round; for weightedConsensus,
\* which has no weight per backend, exactly.
C28_WeightedRule ==
    Aggregated("weighted") =>
        LET wc  == [i \in DOMAIN e_votes |->
                       weight(e_votes[i].model) * e_votes[i].confidence]
            den == SeqSum(wc)
            num == SeqSum([i \in DOMAIN e_votes |-> e_votes[i].value * wc[i]])
            c   == SeqSum([i \in DOMAIN e_votes |-> e_votes[i].confidence])
            sc  == SeqSum([i \in DOMAIN e_votes |->
                       e_votes[i].sentiment * e_votes[i].confidence])
            r   == e_agg.consensus.sentiment
        IN  /\ 2 * Abs(e_agg.vote * den - num) <= den
            /\ r.num * c = sc * r.den

\* C29: a single vote comes back with its score unchanged under the weighted
\* rule, from vote and from combineResults.
C29_SingleVoteUnchanged ==
    Aggregated("weighted") /\ Len(e_votes) = 1 =>
        /\ e_agg.vote = e_votes[1].value
        /\ e_agg.consensus.sentiment.num =
               e_votes[1].sentiment * e_agg.consensus.sentiment.den

C29_Witness ==
    /\ Aggregated("weighted") /\ Len(e_votes) = 1
    /\ e_votes[1].value = 0 /\ e_votes[1].model = BACKUP_MODEL

\* The votes (90, 0.9), (85, 0.8), (20, 0.3) of backends of one weight, put
\* through the weighted rule.
Scenario30 ==
    /\ Aggregated("weighted")
    /\ Len(e_votes) = 3
    /\ \A i \in 1..3 : e_votes[i].model = e_votes[1].model
    /\ {<<e_votes[i].value, e_votes[i].confidence>> : i \in 1..3}
           = {<<90, 90>>, <<85, 80>>, <<20, 30>>}

core == <<PRIORITY, BASE, limits, now, mvars, nStarts, dvars, cvars, evars>>

\* A post to classify: its author, the keywords its lower-cased text holds,
\* metadata.urgent, and the local day (0 Sunday) and hour of the call.
ImportanceInputs ==
    [author : {"elonmusk", "VitalikButerin", "michael_saylor", "other"},
     words  : SUBSET {"breaking", "bitcoin", "ethereum"},
     urgent : BOOLEAN,
     day    : {0, 3},
     hour   : {8, 9, 16, 17}]

\* assessImportance(prompt, context) of the class AIEnsemble.
assessImportance(c) ==
    LET highMatches   == c.words \cap {"breaking", "bitcoin"}
        mediumMatches == c.words \cap {"ethereum"}
        isMarketHours == c.hour >= 9 /\ c.hour <= 16
    IN  IF highMatches # {} \/ c.author = "elonmusk" THEN "high"
        ELSE IF mediumMatches # {} \/ isMarketHours THEN "medium"
        ELSE "low"

\* isMarketHours() of the model router.
isMarketHours(c) == c.day >= 1 /\ c.day <= 5 /\ c.hour >= 9 /\ c.hour <= 16

\* assessContextImportance(context) of the model router.
assessContextImportance(c) ==
    IF c.author = "elonmusk" \/ "breaking" \in c.words \/ c.urgent THEN "critical"
    ELSE IF c.author = "VitalikButerin" \/ c.author = "michael_saylor" \/ isMarketHours(c)
         THEN "high"
    ELSE "normal"

InitImportance ==
    /\ InitLimits /\ InitConfig /\ InitMonitor /\ InitDedupIdle /\ InitClass
    /\ InitEnsembleIdle /\ InitOthers("imp")
    /\ imp \in {[post |-> c, done |-> FALSE, ensemble |-> "", router |-> ""] :
                   c \in ImportanceInputs}

\* The post goes through both classifiers.
Assess ==
    /\ ~imp.done
    /\ imp' = [imp EXCEPT !.done = TRUE,
                          !.ensemble = assessImportance(imp.post),
                          !.router = assessContextImportance(imp.post)]
    /\ UNCHANGED <<core, reg, res, mon, app, soc>>

NextImportance == Assess

SpecImportance == InitImportance /\ [][NextImportance]_vars

\* C31: a post is High when its author is a high-salience author or its text
\* holds a high-salience keyword, otherwise Medium when its author is on the
\* secondary list or the call falls in market hours, otherwise Low; the
\* router names the three levels critical, high and normal.
C31_ImportanceRules ==
    imp # <<>> /\ imp.done =>
        LET c == imp.post
            level == IF c.author = "elonmusk" \/ c.words \cap {"breaking", "bitcoin"} # {}
                     THEN 3
                     ELSE IF c.author \in {"VitalikButerin", "michael_saylor"}
                             \/ (c.hour >= 9 /\ c.hour <= 16)
                          THEN 2
                     ELSE 1
        IN  /\ imp.ensemble = <<"low", "medium", "high">>[level]
            /\ imp.router = <<"normal", "high", "critical">>[level]

(* ----------------------- the account registry -------------------------- *)

\* PRIORITY_ACCOUNTS or TWITTER_ACCOUNTS after split(',') and trim.
EnvLists == UNION {[1..n -> Handles \cup {""}] : n \in 0..MaxEnvItems}

InitRegistry ==
    /\ InitLimits /\ InitMonitor /\ InitDedupIdle /\ InitClass
    /\ InitEnsembleIdle /\ InitOthers("reg")
    /\ PRIORITY = <<>>
    /\ BASE = <<>>
    /\ reg \in [pri : EnvLists, base : EnvLists, loaded : {FALSE}]

\* The module is loaded: PRIORITY and BASE are computed from the environment.
LoadRegistry ==
    /\ ~reg.loaded
    /\ reg' = [reg EXCEPT !.loaded = TRUE]
    /\ PRIORITY' = ParsePriority(reg.pri)
    /\ BASE' = ParseBase(reg.base, ParsePriority(reg.pri))
    /\ UNCHANGED <<limits, now, mvars, nStarts, dvars, cvars, evars, imp, res, mon, app, soc>>

NextRegistry == LoadRegistry

SpecRegistry == InitRegistry /\ [][NextRegistry]_vars

\* C32: no account occurs twice in PRIORITY, twice in BASE, or in both.
C32_RegistryDuplicateFree ==
    reg # <<>> /\ reg.loaded =>
        LET all == PRIORITY \o BASE
        IN  \A i, j \in DOMAIN all : all[i] = all[j] => i = j

(* ------------- start(accounts) of the TwitterMonitor class ------------- *)

\* What a caller can put in the list: a numeric id, names with and without
\* "@", a name the map does not hold.
AccountItems == {"44196397", "elonmusk", "@elonmusk", "naval", "nobody"}

\* ID_MAP[handle] || ID_MAP[handle.toLowerCase()], "" for undefined.
ID_MAP(handle) ==
    CASE handle = "elonmusk" -> "44196397"
      [] handle = "naval"    -> "745273"
      [] OTHER               -> ""

\* [...new Set(accounts)]: the first occurrence of each string, in order.
RECURSIVE SetOf(_)
SetOf(accounts) ==
    IF accounts = <<>> THEN <<>>
    ELSE LET front == SetOf(SubSeq(accounts, 1, Len(accounts) - 1))
             v     == accounts[Len(accounts)]
         IN  IF \E i \in DOMAIN front : front[i] = v THEN front ELSE Append(front, v)

\* The for loop of start over the unique strings: the targets pushed and the
\* names looked up in ID_MAP.
RECURSIVE startTargets(_)
startTargets(unique) ==
    IF unique = <<>> THEN [targets |-> <<>>, lookups |-> <<>>]
    ELSE LET r      == startTargets(SubSeq(unique, 1, Len(unique) - 1))
             v      == unique[Len(unique)]
             handle == IF v = "@elonmusk" THEN "elonmusk" ELSE v
             id     == ID_MAP(handle)
         IN  IF v = "44196397"
             THEN [r EXCEPT !.targets = Append(@, [id |-> v, label |-> v])]
             ELSE [targets |-> IF id # ""
                               THEN Append(r.targets, [id |-> id, label |-> handle])
                               ELSE r.targets,
                   lookups |-> Append(r.lookups, handle)]

InitAccounts ==
    /\ InitLimits /\ InitConfig /\ InitMonitor /\ InitDedupIdle /\ InitClass
    /\ InitEnsembleIdle /\ InitOthers("res")
    /\ \E a \in UNION {[1..n -> AccountItems] : n \in 0..MaxAccounts} :
          res = [accounts |-> a, done |-> FALSE, targets |-> <<>>, lookups |-> <<>>]

\* start(accounts) runs up to this.monitoringAccounts = targets (or throws
\* with no target).
StartAccounts ==
    /\ ~res.done
    /\ LET r == startTargets(SetOf(res.accounts))
       IN  res' = [res EXCEPT !.done = TRUE, !.targets = r.targets,
                              !.lookups = r.lookups]
    /\ UNCHANGED <<core, imp, reg, mon, app, soc>>

NextAccounts == StartAccounts

SpecAccounts == InitAccounts /\ [][NextAccounts]_vars

\* C33: an account given as a numeric id and as a name is one target, under
\* that id, and its name is not looked up.
C33_ExplicitIdWins ==
    res # <<>> /\ res.done =>
        \A i, j \in DOMAIN res.accounts :
            LET v == res.accounts[i]
                h == IF res.accounts[j] = "@elonmusk" THEN "elonmusk" ELSE res.accounts[j]
            IN  v = "44196397" /\ ID_MAP(h) = v =>
                    /\ Cardinality({k \in DOMAIN res.targets : res.targets[k].id = v}) = 1
                    /\ \A k \in DOMAIN res.lookups : res.lookups[k] # h

(* ------------- the single-timer TwitterMonitor class: life ------------- *)

\* What the provider can return for the one account polled, newest first.
MonLists == {<<>>, <<1>>, <<2, 1>>}

\* setInterval at the end of start(): the handle overwrites intervalId.
monSetInterval(m) ==
    [m EXCEPT !.intervalId = m.nextId, !.active = @ \cup {m.nextId}, !.nextId = @ + 1]

\* fetchLatestTweets returns (the finally of the guarded class releases
\* isFetching); a cycle awaited by start() lets start() go on.
monEndCycle(m, cy) ==
    LET m1 == [m EXCEPT !.cycles = @ \ {cy},
                        !.isFetching = IF m.guarded THEN FALSE ELSE @]
    IN  IF cy.origin = "start" THEN monSetInterval(m1) ELSE m1

\* The loop over newTweets from `todo` on: processTweet returns at once for
\* an id the list holds, and parks at analyzeTweet for any other.
RECURSIVE monProcess(_, _, _)
monProcess(m, cy, todo) ==
    IF todo = <<>> THEN monEndCycle(m, cy)
    ELSE IF \E i \in DOMAIN m.tweets : m.tweets[i] = Head(todo)
         THEN monProcess(m, cy, Tail(todo))
         ELSE [m EXCEPT !.cycles = (@ \ {cy}) \cup
                                       {[cy EXCEPT !.pc = "analyse", !.todo = todo]},
                        !.analysed[Head(todo)] = IF @ < 2 THEN @ + 1 ELSE @]

\* fetchLatestTweets without its guard.
monEnterUnguarded(m, origin) ==
    [m EXCEPT !.cycles = @ \cup {[id |-> m.nCycles + 1, origin |-> origin,
                                  pc |-> "fetch", todo |-> <<>>]},
              !.isFetching = m.guarded,
              !.nCycles = @ + 1]

\* fetchLatestTweets is called, by start() or by the interval callback, and
\* runs to its first await.  The guarded class returns [] when a cycle runs.
monEnter(m, origin) ==
    IF m.guarded /\ m.isFetching
    THEN LET m1 == [m EXCEPT !.skipped = TRUE]
         IN  IF origin = "start" THEN monSetInterval(m1) ELSE m1
    ELSE [m EXCEPT !.cycles = @ \cup {[id |-> m.nCycles + 1, origin |-> origin,
                                       pc |-> "fetch", todo |-> <<>>]},
                   !.isFetching = m.guarded,
                   !.nCycles = @ + 1]

InitMon ==
    /\ InitLimits /\ InitConfig /\ InitMonitor /\ InitDedupIdle /\ InitClass
    /\ InitEnsembleIdle /\ InitOthers("mon")
    /\ \E g \in BOOLEAN :
          mon = [guarded |-> g, isMonitoring |-> FALSE, isFetching |-> FALSE,
                 intervalId |-> 0, active |-> {}, nextId |-> 1, cycles |-> {},
                 nCycles |-> 0, nStarts |-> 0, tweets |-> <<>>,
                 analysed |-> [t \in {1, 2} |-> 0], skipped |-> FALSE]

MonUnchanged == UNCHANGED <<core, imp, reg, res, app, soc>>

\* start(accounts), up to the await of the initial fetch.
MonStart ==
    /\ ~mon.isMonitoring
    /\ mon.nStarts < MaxMonStarts
    /\ mon.nCycles < MaxCycles
    /\ mon' = monEnter([mon EXCEPT !.isMonitoring = TRUE, !.nStarts = @ + 1], "start")
    /\ MonUnchanged

\* stop().
MonStop ==
    /\ mon.isMonitoring
    /\ mon' = [mon EXCEPT !.active = @ \ {mon.intervalId}, !.intervalId = 0,
                          !.isMonitoring = FALSE]
    /\ MonUnchanged

\* An active interval fires.
MonTimer ==
    /\ mon.active # {}
    /\ mon.nCycles < MaxCycles
    /\ mon' = monEnter(mon, "timer")
    /\ MonUnchanged

\* The request of a cycle ends (a failed one counts as no tweets).
MonFetched ==
    /\ \E cy \in mon.cycles, list \in MonLists :
          /\ cy.pc = "fetch"
          /\ mon' = monProcess(mon, cy, list)
    /\ MonUnchanged

\* analyzeTweet of a cycle returns or throws: addTweet, then the next tweet.
MonAnalysed ==
    /\ \E cy \in mon.cycles :
          /\ cy.pc = "analyse"
          /\ mon' = monProcess([mon EXCEPT !.tweets = cls_addTweet(@, Head(cy.todo))],
                               cy, Tail(cy.todo))
    /\ MonUnchanged

NextMon == MonStart \/ MonStop \/ MonTimer \/ MonFetched \/ MonAnalysed

SpecMon == InitMon /\ [][NextMon]_vars

\* C35: while isMonitoring is false the class has no active polling interval.
C35_StoppedMeansNoInterval == mon # <<>> /\ ~mon.isMonitoring => mon.active = {}

\* C36: in the class without the guard, the tweet list holds no id twice and
\* no id has been sent to analysis twice.
C36_UnguardedNoDuplicates ==
    mon # <<>> /\ ~mon.guarded =>
        /\ \A i, j \in DOMAIN mon.tweets : mon.tweets[i] = mon.tweets[j] => i = j
        /\ \A t \in DOMAIN mon.analysed : mon.analysed[t] <= 1

\* C37: in the guarded class at most one fetchLatestTweets cycle is running,
\* and isFetching is set exactly while one is.
C37_OneCycleGuardReleased ==
    mon # <<>> /\ mon.guarded =>
        /\ Cardinality(mon.cycles) <= 1
        /\ mon.isFetching <=> mon.cycles # {}

C37_Witness ==
    /\ mon # <<>> /\ mon.guarded /\ mon.skipped
    /\ mon.nCycles >= 2 /\ mon.cycles = {} /\ ~mon.isFetching

(* ------------- modes, simulation and live timers (index.js) ------------ *)

\* How many HTTP requests the operator sends, and how many tier loops may be
\* parked at a fetch at once.
MaxRequests == 3
MaxLoops == 2
\* How many intervals are created in one run.
MaxAppTimers == 4

Modes == {"simulation", "production", "paper_trading"}

\* One account per tier; a burst timer is kept per handle.
TierHandle(kind) == IF kind = "P" THEN "p1" ELSE "b1"

\* setInterval: a new active interval of this kind; the handle is a.nextId.
appSetInterval(a, kind, h) ==
    [a EXCEPT !.active = @ \cup {[id |-> a.nextId, kind |-> kind, handle |-> h]},
              !.nextId = @ + 1]

appClear(a, ids) == [a EXCEPT !.active = {t \in @ : t.id \notin ids}]

appStopSimulation(a) ==
    [appClear(a, {a.simTimer}) EXCEPT !.simTimer = 0, !.simActive = FALSE]

appStopMonitoring(a) ==
    [appClear(a, {a.priorityTimer, a.baseTimer}
                    \cup {a.burstTimers[h] : h \in DOMAIN a.burstTimers})
        EXCEPT !.burstTimers = [h \in DOMAIN @ |-> 0], !.isMonitoring = FALSE]

\* startSimulation() after its dataset is there: the interval, then simActive.
appSimArm(a) ==
    LET b == appSetInterval(a, "sim", "")
    IN  [b EXCEPT !.simTimer = a.nextId, !.simActive = TRUE]

\* startSimulation(): returns at once when simActive; awaits the dataset when
\* SIM_REAL, else goes straight on to the interval.
appStartSimulation(a) ==
    IF a.simActive THEN a
    ELSE IF a.SIM_REAL THEN [a EXCEPT !.simBuilding = @ + 1]
    ELSE appSimArm(a)

\* startMonitoring(): the two initial passes park at their first fetch, then
\* the two tier intervals are created.
appStartMonitoring(a) ==
    IF a.isMonitoring THEN a
    ELSE LET b == appSetInterval([a EXCEPT !.isMonitoring = TRUE,
                                           !.loops = [k \in {"P", "B"} |-> @[k] + 1]],
                                 "P", "")
             c == appSetInterval(b, "B", "")
         IN  [c EXCEPT !.priorityTimer = a.nextId, !.baseTimer = a.nextId + 1]

\* ensureBurst(handle): one interval per handle in burstTimers.
appEnsureBurst(a, h) ==
    IF a.burstTimers[h] # 0 THEN a
    ELSE [appSetInterval(a, "burst", h) EXCEPT !.burstTimers[h] = a.nextId]

InitMode ==
    /\ InitLimits /\ InitConfig /\ InitMonitor /\ InitDedupIdle /\ InitClass
    /\ InitEnsembleIdle /\ InitOthers("app")
    /\ \E real \in BOOLEAN, m \in Modes :
          app = [SIM_REAL |-> real, mode |-> m, simActive |-> FALSE,
                 simTimer |-> 0, simBuilding |-> 0, isMonitoring |-> FALSE,
                 priorityTimer |-> 0, baseTimer |-> 0,
                 burstTimers |-> [h \in {"p1", "b1"} |-> 0],
                 loops |-> [k \in {"P", "B"} |-> 0], active |-> {},
                 nextId |-> 1, switched |-> FALSE, nReq |-> 0]

ModeUnchanged == UNCHANGED <<core, imp, reg, res, mon, soc>>

Request(a) == [a EXCEPT !.nReq = @ + 1]

\* POST /api/mode.
PostMode ==
    /\ app.nReq < MaxRequests
    /\ \E m \in Modes :
          LET a == IF app.simActive THEN appStopSimulation(app) ELSE app
              b == IF a.isMonitoring THEN appStopMonitoring(a) ELSE a
          IN  app' = Request([b EXCEPT !.mode = m, !.switched = TRUE])
    /\ ModeUnchanged

\* POST /api/monitor/start.
PostMonitorStart ==
    /\ app.nReq < MaxRequests
    /\ app.loops["P"] < MaxLoops /\ app.loops["B"] < MaxLoops
    /\ LET a == Request([app EXCEPT !.switched = FALSE])
       IN  app' = IF app.mode = "simulation" THEN appStartSimulation(a)
                  ELSE appStartMonitoring(a)
    /\ ModeUnchanged

\* POST /api/monitor/stop.
PostMonitorStop ==
    /\ app.nReq < MaxRequests
    /\ app' = Request(IF app.mode = "simulation" THEN appStopSimulation(app)
                      ELSE appStopMonitoring(app))
    /\ ModeUnchanged

\* POST /api/sim/start.
PostSimStart ==
    /\ app.nReq < MaxRequests
    /\ app' = appStartSimulation(Request([app EXCEPT !.switched = FALSE]))
    /\ ModeUnchanged

\* buildSimulationDataset() of a waiting startSimulation() returns.
SimBuilt ==
    /\ app.simBuilding > 0
    /\ app' = appSimArm([app EXCEPT !.simBuilding = @ - 1])
    /\ ModeUnchanged

\* A tier interval fires: priorityLoopOnce / baseLoopOnce parks at its fetch.
TierFires ==
    /\ \E t \in app.active :
          /\ t.kind \in {"P", "B"}
          /\ app.loops[t.kind] < MaxLoops
          /\ app' = [app EXCEPT !.loops[t.kind] = @ + 1]
    /\ ModeUnchanged

\* The fetch of a tier loop returns; fresh tweets start a burst.
LoopFetched ==
    /\ \E k \in {"P", "B"}, fresh \in BOOLEAN :
          /\ app.loops[k] > 0
          /\ fresh => app.nextId <= MaxAppTimers
          /\ LET a == [app EXCEPT !.loops[k] = @ - 1]
             IN  app' = IF fresh THEN appEnsureBurst(a, TierHandle(k)) ELSE a
    /\ ModeUnchanged

\* A burst interval fires after its window: clearInterval(t) of itself and
\* burstTimers.delete(handle) of whatever the map holds for its handle.
BurstExpires ==
    /\ \E t \in app.active :
          /\ t.kind = "burst"
          /\ app' = [appClear(app, {t.id}) EXCEPT !.burstTimers[t.handle] = 0]
    /\ ModeUnchanged

NextMode ==
    \/ PostMode \/ PostMonitorStart \/ PostMonitorStop \/ PostSimStart
    \/ SimBuilt \/ TierFires \/ LoopFetched \/ BurstExpires

SpecMode == InitMode /\ [][NextMode]_vars

\* C38: from a mode switch until the next start request no replay timer, tier
\* timer or burst timer is active.
C38_QuietAfterSwitch == app # <<>> /\ app.switched => app.active = {}

(* ------------- the Redis-backed social monitor (performScan) ----------- *)

\* How many scans are started in one run (cron, initial, manual).
MaxScans == 2

SocIds == {1, 2}

\* What getUserTweets returns for the one monitored account.
SocResponses == {<<>>, <<1>>, <<2, 1>>}

\* The scan sc goes on with the tweets `todo` of its response, having let
\* pass the tweets `new`: it awaits
\* redis exists() for the next one, or, at the end of the list, publishes
\* the tweets that passed the filter (processTweets) and returns.
socFilter(m, sc, new, todo) ==
    IF todo # <<>>
    THEN [m EXCEPT !.scans = (@ \ {sc}) \cup
                       {[sc EXCEPT !.pc = "exists", !.todo = todo, !.new = new]}]
    ELSE [m EXCEPT !.scans = @ \ {sc},
                   !.published = [t \in SocIds |->
                       @[t] + Cardinality({i \in DOMAIN new : new[i] = t})]]

InitSoc ==
    /\ InitLimits /\ InitConfig /\ InitMonitor /\ InitDedupIdle /\ InitClass
    /\ InitEnsembleIdle /\ InitOthers("soc")
    /\ soc = [keys |-> {}, scans |-> {}, nScans |-> 0,
              passed |-> [t \in SocIds |-> 0], published |-> [t \in SocIds |-> 0]]

SocUnchanged == UNCHANGED <<core, imp, reg, res, mon, app>>

\* performScan() is called by the cron job, by start() or by hand, and awaits
\* getUserTweets for the account.
SocScan ==
    /\ soc.nScans < MaxScans
    /\ soc' = [soc EXCEPT !.nScans = @ + 1,
                  !.scans = @ \cup {[id |-> soc.nScans + 1, pc |-> "fetch",
                                     todo |-> <<>>, new |-> <<>>]}]
    /\ SocUnchanged

\* The provider answers; a failed response counts as no tweets.
SocFetched ==
    /\ \E sc \in soc.scans, list \in SocResponses :
          /\ sc.pc = "fetch"
          /\ soc' = socFilter(soc, sc, <<>>, list)
    /\ SocUnchanged

\* redis exists(tweet:id) answers.
SocExists ==
    /\ \E sc \in soc.scans :
          /\ sc.pc = "exists"
          /\ soc' = IF Head(sc.todo) \in soc.keys
                    THEN socFilter(soc, sc, sc.new, Tail(sc.todo))
                    ELSE [soc EXCEPT !.scans = (@ \ {sc}) \cup {[sc EXCEPT !.pc = "setEx"]}]
    /\ SocUnchanged

\* redis setEx(tweet:id) answers: the tweet has passed the filter.
SocSetEx ==
    /\ \E sc \in soc.scans :
          /\ sc.pc = "setEx"
          /\ LET t == Head(sc.todo)
                 m == [soc EXCEPT !.keys = @ \cup {t}, !.passed[t] = @ + 1]
             IN  soc' = socFilter(m, sc, Append(sc.new, t), Tail(sc.todo))
    /\ SocUnchanged

NextSoc == SocScan \/ SocFetched \/ SocExists \/ SocSetEx

SpecSoc == InitSoc /\ [][NextSoc]_vars

\* C40: no tweet id passes the new-tweet filter twice, and none is published
\* twice.
C40_FilteredAtMostOnce ==
    soc # <<>> => \A t \in SocIds : soc.passed[t] <= 1 /\ soc.published[t] <= 1

====
